---- MODULE Spec2Model ----
(***************************************************************************)
(* Alert lifecycle engine of unraid-monitor: alerts/models.py (AlertState, *)
(* MetricReading) and alerts/manager.py (AlertManager), together with the  *)
(* JSON state file the manager loads at construction and rewrites after    *)
(* its operations.                                                         *)
(*                                                                         *)
(* Time is counted in whole minutes.  The dict _states is a function from  *)
(* alert keys to AlertState records; the state file is the sequence of its *)
(* records in the order they stand in the document.  A JSON value is a     *)
(* tagged record, so that to_dict / from_dict are conversions between two  *)
(* different representations.                                              *)
(*                                                                         *)
(* Further sections model the start of the process (config.py), the Docker *)
(* monitor (monitors/docker_monitor.py, monitors/base.py), the cutoff      *)
(* dates of the alert history (database/connection.py) and the start and   *)
(* shutdown of the program (main.py, discord_client.py).                   *)
(***************************************************************************)
EXTENDS Integers, Sequences, FiniteSets, TLC

----------------------------------------------------------------------------
(* Bounds of the model *)

MaxTime == 1
MaxTriggers == 2
MaxValue == 3
MaxCooldown == 1
MaxHysteresis == 1
MaxThreshold == 1
MaxOutbox == 3

----------------------------------------------------------------------------
(* alerts/models.py *)

\* Python None in an optional numeric or datetime field
None == -1

WARNING == "warning"
CRITICAL == "critical"
RECOVERY == "recovery"
\* get_alert_level() returning None
NoLevel == "none"

AlertLevelValues == {"info", WARNING, CRITICAL, RECOVERY}

EmptyContext == <<>>

NewAlertState(key) ==
    [alert_key |-> key,
     current_value |-> None,
     threshold_value |-> None,
     level |-> WARNING,
     is_active |-> FALSE,
     first_triggered |-> None,
     last_alert_sent |-> None,
     trigger_count |-> 0,
     context |-> EmptyContext]

\* get_alert_level that asks for the warning threshold first
GetAlertLevelWarningFirst(r) ==
    IF r.warning_threshold # None /\ r.value >= r.warning_threshold THEN WARNING
    ELSE IF r.critical_threshold # None /\ r.value >= r.critical_threshold THEN CRITICAL
    ELSE NoLevel

GetAlertLevel(r) ==
    IF r.critical_threshold # None /\ r.value >= r.critical_threshold THEN CRITICAL
    ELSE IF r.warning_threshold # None /\ r.value >= r.warning_threshold THEN WARNING
    ELSE NoLevel

\* a fallback to the critical threshold where the reading has no warning one
WarningOrCritical(r) ==
    IF r.warning_threshold = None \/ r.warning_threshold = 0
    THEN (IF r.critical_threshold = None THEN 0 ELSE r.critical_threshold)
    ELSE r.warning_threshold

\* (self.warning_threshold or 0): None and 0 are both falsy
WarningOrZero(r) ==
    IF r.warning_threshold = None \/ r.warning_threshold = 0 THEN 0 ELSE r.warning_threshold

\* is_above_threshold that forgets the buffer
IsAboveThresholdNoBuffer(r, hysteresis_percent) ==
    r.value >= WarningOrZero(r)

IsAboveThreshold(r, hysteresis_percent) ==
    r.value >= WarningOrZero(r) - hysteresis_percent

----------------------------------------------------------------------------
(* JSON values, as json.dump writes them and json.load returns them *)

JNull == [t |-> "null"]
JNum(n) == [t |-> "num", v |-> n]
JBool(b) == [t |-> "bool", v |-> b]
JStr(s) == [t |-> "str", v |-> s]
JObj(m) == [t |-> "obj", v |-> m]
\* the string datetime.isoformat() produces for the minute n
JIso(n) == [t |-> "iso", v |-> n]

\* Python truthiness of a decoded JSON value
Truthy(j) ==
    CASE j.t = "null" -> FALSE
      [] j.t = "num" -> j.v # 0
      [] j.t = "bool" -> j.v
      [] j.t = "str" -> j.v # ""
      [] j.t = "obj" -> j.v # <<>>
      [] j.t = "iso" -> TRUE

\* dict.get(name) with the default None
JGet(d, name) == IF name \in DOMAIN d THEN d[name] ELSE JNull

\* a JSON number or null, back in Python
PyNum(j) == IF j.t = "num" THEN j.v ELSE None

\* to_dict that writes first_triggered under both timestamp names
ToDictOneTimestamp(s) ==
    [alert_key |-> JStr(s.alert_key),
     current_value |-> IF s.current_value = None THEN JNull ELSE JNum(s.current_value),
     threshold_value |-> IF s.threshold_value = None THEN JNull ELSE JNum(s.threshold_value),
     level |-> JStr(s.level),
     is_active |-> JBool(s.is_active),
     first_triggered |-> IF s.first_triggered # None THEN JIso(s.first_triggered) ELSE JNull,
     last_alert_sent |-> IF s.first_triggered # None THEN JIso(s.first_triggered) ELSE JNull,
     trigger_count |-> JNum(s.trigger_count),
     context |-> JObj(s.context)]

ToDict(s) ==
    [alert_key |-> JStr(s.alert_key),
     current_value |-> IF s.current_value = None THEN JNull ELSE JNum(s.current_value),
     threshold_value |-> IF s.threshold_value = None THEN JNull ELSE JNum(s.threshold_value),
     level |-> JStr(s.level),
     is_active |-> JBool(s.is_active),
     first_triggered |-> IF s.first_triggered # None THEN JIso(s.first_triggered) ELSE JNull,
     last_alert_sent |-> IF s.last_alert_sent # None THEN JIso(s.last_alert_sent) ELSE JNull,
     trigger_count |-> JNum(s.trigger_count),
     context |-> JObj(s.context)]

\* from_dict raises: KeyError for a missing alert_key, ValueError for a level
\* that is no AlertLevel, ValueError/TypeError for a truthy timestamp that
\* is no ISO string
FromDictRaises(d) ==
    \/ "alert_key" \notin DOMAIN d
    \/ /\ Truthy(JGet(d, "level"))
       /\ ~(d.level.t = "str" /\ d.level.v \in AlertLevelValues)
    \/ Truthy(JGet(d, "first_triggered")) /\ d.first_triggered.t # "iso"
    \/ Truthy(JGet(d, "last_alert_sent")) /\ d.last_alert_sent.t # "iso"

FromDict(d) ==
    [alert_key |-> d.alert_key.v,
     current_value |-> PyNum(JGet(d, "current_value")),
     threshold_value |-> PyNum(JGet(d, "threshold_value")),
     level |-> IF Truthy(JGet(d, "level")) THEN d.level.v ELSE WARNING,
     is_active |-> IF "is_active" \in DOMAIN d THEN d.is_active.v ELSE FALSE,
     first_triggered |-> IF Truthy(JGet(d, "first_triggered")) THEN d.first_triggered.v ELSE None,
     last_alert_sent |-> IF Truthy(JGet(d, "last_alert_sent")) THEN d.last_alert_sent.v ELSE None,
     trigger_count |-> IF "trigger_count" \in DOMAIN d THEN d.trigger_count.v ELSE 0,
     context |-> IF "context" \in DOMAIN d THEN d.context.v ELSE EmptyContext]

----------------------------------------------------------------------------
(* The dict self._states *)

EmptyMap == <<>>

HasKey(m, key) == key \in DOMAIN m

\* self._states[key] = state
Put(m, key, s) == [k \in (DOMAIN m) \cup {key} |-> IF k = key THEN s ELSE m[k]]

\* state = self._states.get(key); if state is None: create and insert
GetOrCreate(m, key) == IF HasKey(m, key) THEN m ELSE Put(m, key, NewAlertState(key))

----------------------------------------------------------------------------
(* The state file *)

\* alert_key = f"{reading.metric_type.value}_{reading.metric_id}"
ReadingKey(r) == <<r.metric_type, r.metric_id>>

\* alert_key = f"container_{container_name}_{issue_type}"
ContainerKey(container_name, issue_type) == <<"container", container_name, issue_type>>

MetricKey == <<"memory", "memory">>

\* the order in which the keys of the model stand in a written document
KeyOrder ==
    <<MetricKey, ContainerKey("app", "stopped"),
      <<"cpu", "cpu">>, <<"disk", "mnt_user">>, <<"temperature", "coretemp_core_0">>,
      ContainerKey("app", "unhealthy"), ContainerKey("app", "restart_loop") >>

NoFile == [exists |-> FALSE, complete |-> FALSE, recs |-> <<>>]

\* a complete JSON document {key: record, ...}
Document(recs) == [exists |-> TRUE, complete |-> TRUE, recs |-> recs]

\* what open(state_file, "w") leaves on disk until the buffered document is
\* flushed: an empty file, which is no JSON document
EmptyFile == [exists |-> TRUE, complete |-> FALSE, recs |-> <<>>]

\* data = {key: state.to_dict() for key, state in self._states.items()}
SaveData(m) ==
    LET present == SelectSeq(KeyOrder, LAMBDA k : k \in DOMAIN m)
    IN  [i \in 1..Len(present) |-> [key |-> present[i], data |-> ToDict(m[present[i]])]]

\* _save_state that runs to its end
SaveState(m) == Document(SaveData(m))

\* what the file system does to one _save_state: the document is written,
\* or mkdir / open raises and the file stays as it was, or the write raises
\* after open(state_file, "w") has emptied the file
DiskOutcomes == {"written", "denied", "full"}

\* _save_state without its try / except: the error reaches the caller
SaveStateOutcomeUnguarded(m, f, wr) ==
    [file |-> CASE wr = "written" -> SaveState(m)
                [] wr = "denied" -> f
                [] wr = "full" -> EmptyFile,
     raises |-> wr # "written"]

\* _save_state on the file f: the file it leaves, and whether an exception
\* leaves the method
SaveStateOutcome(m, f, wr) ==
    [file |-> CASE wr = "written" -> SaveState(m)
                [] wr = "denied" -> f
                [] wr = "full" -> EmptyFile,
     raises |-> FALSE]

\* the for loop of _load_state: records are inserted one by one until
\* from_dict raises; the except clause keeps what was inserted before
RECURSIVE LoadRecords(_, _)
LoadRecords(recs, m) ==
    IF recs = <<>> THEN m
    ELSE IF FromDictRaises(Head(recs).data) THEN m
    ELSE LoadRecords(Tail(recs), Put(m, Head(recs).key, FromDict(Head(recs).data)))

LoadState(f) ==
    IF ~f.exists THEN EmptyMap
    ELSE IF ~f.complete THEN EmptyMap
    ELSE LoadRecords(f.recs, EmptyMap)

----------------------------------------------------------------------------
(* alerts/manager.py: the decisions of the engine.  A result is the new    *)
(* AlertState, the levels of the messages handed to discord.send_alert,   *)
(* and the returned value.                                                 *)

\* the comparison of _is_in_cooldown turned round
IsInCooldownFlipped(s, t, cfg) ==
    IF s.last_alert_sent = None THEN FALSE
    ELSE t - s.last_alert_sent > cfg.cooldown_minutes

\* _is_in_cooldown that still suppresses when exactly the cooldown has passed
IsInCooldownInclusive(s, t, cfg) ==
    IF s.last_alert_sent = None THEN FALSE
    ELSE t - s.last_alert_sent <= cfg.cooldown_minutes

IsInCooldown(s, t, cfg) ==
    IF s.last_alert_sent = None THEN FALSE
    ELSE t - s.last_alert_sent < cfg.cooldown_minutes

\* the two levels of _should_escalate exchanged
ShouldEscalateSwapped(s, new_level) ==
    IF ~s.is_active THEN FALSE
    ELSE new_level = WARNING /\ s.level = CRITICAL

\* _should_escalate that follows every change of level, downwards too
ShouldEscalateAnyChange(s, new_level) ==
    IF ~s.is_active THEN FALSE
    ELSE new_level # s.level

ShouldEscalate(s, new_level) ==
    IF ~s.is_active THEN FALSE
    ELSE new_level = CRITICAL /\ s.level = WARNING

\* _send_alert that stamps last_alert_sent whatever the transport reports
SendAlertAlwaysStamps(s, level, ok, t) ==
    [state |-> [s EXCEPT !.last_alert_sent = t],
     sent |-> <<level>>,
     ret |-> ok]

\* _send_alert that hands a failed message to the transport a second time
SendAlertTwice(s, level, ok, t) ==
    [state |-> IF ok THEN [s EXCEPT !.last_alert_sent = t] ELSE s,
     sent |-> IF ok THEN <<level>> ELSE <<level, level>>,
     ret |-> ok]

\* ok is what the transport reports for the message
SendAlert(s, level, ok, t) ==
    [state |-> IF ok THEN [s EXCEPT !.last_alert_sent = t] ELSE s,
     sent |-> <<level>>,
     ret |-> ok]

\* _handle_threshold_exceeded that asks the cooldown before a first alert too
HandleThresholdExceededCooldownFirst(s, r, level, ok, t, cfg) ==
    LET s1 == [s EXCEPT !.threshold_value =
                            IF level = CRITICAL THEN r.critical_threshold
                            ELSE r.warning_threshold,
                        !.context = r.context]
    IN  IF ShouldEscalate(s1, level)
        THEN SendAlert([s1 EXCEPT !.level = level,
                                  !.trigger_count = @ + 1], level, ok, t)
        ELSE IF IsInCooldown(s1, t, cfg)
        THEN [state |-> s1, sent |-> <<>>, ret |-> FALSE]
        ELSE IF ~s1.is_active
        THEN SendAlert([s1 EXCEPT !.is_active = TRUE,
                                  !.first_triggered = t,
                                  !.level = level,
                                  !.trigger_count = 1], level, ok, t)
        ELSE SendAlert([s1 EXCEPT !.trigger_count = @ + 1], level, ok, t)

HandleThresholdExceeded(s, r, level, ok, t, cfg) ==
    LET s1 == [s EXCEPT !.threshold_value =
                            IF level = CRITICAL THEN r.critical_threshold
                            ELSE r.warning_threshold,
                        !.context = r.context]
        is_new_alert == ~s1.is_active
        is_escalation == ShouldEscalate(s1, level)
    IN  IF is_new_alert
        THEN SendAlert([s1 EXCEPT !.is_active = TRUE,
                                  !.first_triggered = t,
                                  !.level = level,
                                  !.trigger_count = 1], level, ok, t)
        ELSE IF is_escalation
        THEN SendAlert([s1 EXCEPT !.level = level,
                                  !.trigger_count = @ + 1], level, ok, t)
        ELSE IF ~IsInCooldown(s1, t, cfg)
        THEN SendAlert([s1 EXCEPT !.trigger_count = @ + 1], level, ok, t)
        ELSE [state |-> s1, sent |-> <<>>, ret |-> FALSE]

\* _handle_recovery that clears the counter with the rest of the state
HandleRecoveryClearsCount(s, r, ok, cfg) ==
    IF IsAboveThreshold(r, cfg.hysteresis_percent)
    THEN [state |-> s, sent |-> <<>>, ret |-> FALSE]
    ELSE [state |-> [s EXCEPT !.is_active = FALSE,
                              !.first_triggered = None,
                              !.level = WARNING,
                              !.trigger_count = 0],
          sent |-> IF cfg.recovery_enabled THEN <<RECOVERY>> ELSE <<>>,
          ret |-> IF cfg.recovery_enabled THEN ok ELSE FALSE]

\* _handle_recovery that leaves first_triggered as it was
HandleRecoveryKeepsFirstTriggered(s, r, ok, cfg) ==
    IF IsAboveThreshold(r, cfg.hysteresis_percent)
    THEN [state |-> s, sent |-> <<>>, ret |-> FALSE]
    ELSE [state |-> [s EXCEPT !.is_active = FALSE,
                              !.level = WARNING],
          sent |-> IF cfg.recovery_enabled THEN <<RECOVERY>> ELSE <<>>,
          ret |-> IF cfg.recovery_enabled THEN ok ELSE FALSE]

HandleRecovery(s, r, ok, cfg) ==
    IF IsAboveThreshold(r, cfg.hysteresis_percent)
    THEN [state |-> s, sent |-> <<>>, ret |-> FALSE]
    ELSE [state |-> [s EXCEPT !.is_active = FALSE,
                              !.first_triggered = None,
                              !.level = WARNING],
          sent |-> IF cfg.recovery_enabled THEN <<RECOVERY>> ELSE <<>>,
          ret |-> IF cfg.recovery_enabled THEN ok ELSE FALSE]

\* process_reading on the map m: the new map, the messages sent, the
\* returned value, and whether _save_state is reached
ProcessReadingCall(m, r, ok, t, cfg) ==
    LET key == ReadingKey(r)
        m0 == GetOrCreate(m, key)
        s0 == [m0[key] EXCEPT !.current_value = r.value]
        current_level == GetAlertLevel(r)
        res == IF current_level # NoLevel
               THEN HandleThresholdExceeded(s0, r, current_level, ok, t, cfg)
               ELSE IF s0.is_active
               THEN HandleRecovery(s0, r, ok, cfg)
               ELSE [state |-> s0, sent |-> <<>>, ret |-> FALSE]
    IN  [states |-> Put(m0, key, res.state), sent |-> res.sent, ret |-> res.ret,
         save |-> TRUE]

ProcessContainerAlertCall(m, container_name, issue_type, level, ok, t, cfg) ==
    LET key == ContainerKey(container_name, issue_type)
        m0 == GetOrCreate(m, key)
        s == m0[key]
    IN  IF s.is_active /\ IsInCooldown(s, t, cfg)
        THEN [states |-> m0, sent |-> <<>>, ret |-> FALSE, save |-> FALSE]
        ELSE IF ok
        THEN [states |-> Put(m0, key,
                             [s EXCEPT !.is_active = TRUE,
                                       !.first_triggered = IF s.is_active THEN @ ELSE t,
                                       !.trigger_count = IF s.is_active THEN @ + 1 ELSE 1,
                                       !.level = level,
                                       !.last_alert_sent = t]),
              sent |-> <<level>>, ret |-> TRUE, save |-> TRUE]
        ELSE [states |-> m0, sent |-> <<level>>, ret |-> FALSE, save |-> FALSE]

\* clear_container_alert that resets the state only when the recovery
\* message went out
ClearContainerAlertCallIfDelivered(m, container_name, issue_type, ok, cfg) ==
    LET key == ContainerKey(container_name, issue_type)
    IN  IF ~HasKey(m, key) \/ ~m[key].is_active
        THEN [states |-> m, sent |-> <<>>, ret |-> FALSE, save |-> FALSE]
        ELSE [states |-> IF cfg.recovery_enabled /\ ok
                         THEN Put(m, key, [m[key] EXCEPT !.is_active = FALSE,
                                                         !.first_triggered = None])
                         ELSE m,
              sent |-> IF cfg.recovery_enabled THEN <<RECOVERY>> ELSE <<>>,
              ret |-> IF cfg.recovery_enabled THEN ok ELSE FALSE,
              save |-> TRUE]

ClearContainerAlertCall(m, container_name, issue_type, ok, cfg) ==
    LET key == ContainerKey(container_name, issue_type)
    IN  IF ~HasKey(m, key) \/ ~m[key].is_active
        THEN [states |-> m, sent |-> <<>>, ret |-> FALSE, save |-> FALSE]
        ELSE [states |-> Put(m, key, [m[key] EXCEPT !.is_active = FALSE,
                                                    !.first_triggered = None]),
              sent |-> IF cfg.recovery_enabled THEN <<RECOVERY>> ELSE <<>>,
              ret |-> IF cfg.recovery_enabled THEN ok ELSE FALSE,
              save |-> TRUE]

\* the end of a call whose decisions are out, with the file f on disk: the
\* map in memory holds the updates made before _save_state, and the caller
\* gets the returned value unless _save_state raised
Complete(out, f, wr) ==
    LET saved == IF out.save THEN SaveStateOutcome(out.states, f, wr)
                 ELSE [file |-> f, raises |-> FALSE]
    IN  [states |-> out.states,
         file |-> saved.file,
         sent |-> out.sent,
         raises |-> saved.raises,
         ret |-> IF saved.raises THEN FALSE ELSE out.ret]

\* get_active_alerts: the states with is_active
GetActiveAlerts(m) == {m[k] : k \in {key \in DOMAIN m : m[key].is_active}}

\* sum(s.trigger_count for s in self._states.values())
RECURSIVE SumTriggerCount(_, _)
SumTriggerCount(m, keys) ==
    IF keys = {} THEN 0
    ELSE LET k == CHOOSE key \in keys : TRUE
         IN  m[k].trigger_count + SumTriggerCount(m, keys \ {k})

\* get_statistics that counts every known key as an active alert
GetStatisticsAllKeys(m) ==
    [active_alerts |-> Cardinality(DOMAIN m),
     total_triggers |-> SumTriggerCount(m, DOMAIN m),
     by_level |->
         [warning |-> Cardinality({k \in DOMAIN m : m[k].is_active /\ m[k].level = WARNING}),
          critical |-> Cardinality({k \in DOMAIN m : m[k].is_active /\ m[k].level = CRITICAL})],
     states |-> [k \in DOMAIN m |-> ToDict(m[k])]]

GetStatistics(m) ==
    [active_alerts |-> Cardinality({k \in DOMAIN m : m[k].is_active}),
     total_triggers |-> SumTriggerCount(m, DOMAIN m),
     by_level |->
         [warning |-> Cardinality({k \in DOMAIN m : m[k].is_active /\ m[k].level = WARNING}),
          critical |-> Cardinality({k \in DOMAIN m : m[k].is_active /\ m[k].level = CRITICAL})],
     states |-> [k \in DOMAIN m |-> ToDict(m[k])]]

\* get_statistics as a call: it assigns to no state and does not reach
\* _save_state
GetStatisticsCall(m) ==
    [states |-> m, sent |-> <<>>, ret |-> GetStatistics(m), save |-> FALSE]

----------------------------------------------------------------------------
(* Inputs *)

WarningThreshold == MaxValue - 1
CriticalThreshold == MaxValue

\* thresholds a reading carries: both, as the system monitor passes them,
\* or the critical one only
ThresholdChoices ==
    {[warning |-> WarningThreshold, critical |-> CriticalThreshold],
     [warning |-> None, critical |-> CriticalThreshold]}

\* context of a memory reading
MemoryContext == << <<"Used", "1.0 GB">>, <<"Total", "2.0 GB">> >>

Readings ==
    {[metric_type |-> "memory", metric_id |-> "memory", value |-> v,
      warning_threshold |-> th.warning, critical_threshold |-> th.critical,
      context |-> MemoryContext] : v \in 0..MaxValue, th \in ThresholdChoices}

ContainerNames == {"app"}
IssueTypes == {"stopped"}
ContainerLevels == {WARNING, CRITICAL}

Configs ==
    {[cooldown_minutes |-> MaxCooldown, recovery_enabled |-> TRUE,
      hysteresis_percent |-> MaxHysteresis],
     [cooldown_minutes |-> MaxCooldown, recovery_enabled |-> FALSE,
      hysteresis_percent |-> 0]}

\* records found in a state file that this run did not write
StoredRecord == ToDict([NewAlertState(MetricKey) EXCEPT !.current_value = 0])
RecordWithoutKey ==
    [f \in (DOMAIN StoredRecord) \ {"alert_key"} |-> StoredRecord[f]]
RecordWithUnknownLevel ==
    [ToDict(NewAlertState(ContainerKey("app", "stopped"))) EXCEPT !.level = JStr("emergency")]

InitialFiles ==
    {NoFile,
     EmptyFile,
     Document(<< [key |-> MetricKey, data |-> StoredRecord],
                 [key |-> ContainerKey("app", "stopped"), data |-> RecordWithUnknownLevel] >>),
     Document(<< [key |-> ContainerKey("app", "stopped"), data |-> RecordWithoutKey],
                 [key |-> MetricKey, data |-> StoredRecord] >>)}

----------------------------------------------------------------------------
(* State *)

VARIABLES
    states,   \* AlertManager._states
    file,     \* content of AlertManager.state_file on disk
    now,      \* datetime.now(), in minutes
    config,   \* AlertsConfig
    up,       \* the process is running
    call,     \* the last call of the engine: operation, key, level, messages sent, result
    pending,  \* per task: the process_reading call suspended in await send_alert
    outbox,   \* the messages handed to the transport by suspended calls
    previous_states,  \* DockerMonitor._previous_states
    restart_history,  \* DockerMonitor._restart_history
    last_check_data,  \* BaseMonitor._last_check_data of the Docker monitor
    today,            \* the date of datetime.now()
    alert_history,    \* the rows of the table alert_history: the day of each timestamp
    answer,           \* what the last call of the Database returned or raised
    monitor,          \* UnraidMonitor: _running, the scheduler, the web task
    discord,          \* DiscordClient: _session, and the messages it has sent
    tasks             \* main() and the stop() tasks of the signal handler: their position

vars == <<states, file, now, config, up, call, pending, outbox,
          previous_states, restart_history, last_check_data,
          today, alert_history, answer, monitor, discord, tasks>>

\* the state of the monitors, the database and the main program
otherVars == <<previous_states, restart_history, last_check_data,
               today, alert_history, answer, monitor, discord, tasks>>

\* the tasks that run SystemMonitor.check: the scheduled system check and
\* the weekly report (get_report_data)
Callers == {"system_monitor", "weekly_report"}

\* a task that is in no call of process_reading
Idle == [pc |-> "idle"]

NoPending == [task \in Callers |-> Idle]

\* BaseMonitor.__init__: self._last_check_data = {}
NoData == [error |-> FALSE, containers |-> <<>>]

\* DockerMonitor.__init__
InitDockerMonitor ==
    /\ previous_states = EmptyMap
    /\ restart_history = EmptyMap
    /\ last_check_data = NoData

\* the first day of the year of the model
NewYear == [month |-> 1, day |-> 1]

\* no call of the Database was made yet
NoAnswer == [op |-> "none", raises |-> FALSE, value |-> 0]

\* an empty table alert_history
InitDatabase ==
    /\ today = NewYear
    /\ alert_history = <<>>
    /\ answer = NoAnswer

\* main() and one stop() task for each signal that has a handler
Tasks == {"main", "SIGTERM", "SIGINT"}

\* UnraidMonitor.__init__ and DiscordClient.__init__
InitUnraidMonitor ==
    /\ monitor = [running |-> FALSE, scheduler |-> FALSE, web |-> FALSE]
    /\ discord = [session |-> FALSE, closes |-> 0, messages |-> <<>>]
    /\ tasks = [t \in Tasks |-> "idle"]

\* AlertManager.__init__
Init ==
    /\ file \in InitialFiles
    /\ states = LoadState(file)
    /\ now = 0
    /\ config \in Configs
    /\ up = TRUE
    /\ call = [op |-> "init"]
    /\ pending = NoPending
    /\ outbox = <<>>
    /\ InitDockerMonitor
    /\ InitDatabase
    /\ InitUnraidMonitor

\* what a completed call leaves behind
Return(out, op, key, level) ==
    /\ \A i \in DOMAIN out.states : out.states[i].trigger_count <= MaxTriggers
    /\ states' = out.states
    /\ file' = IF out.save THEN SaveState(out.states) ELSE file
    /\ call' = [op |-> op, key |-> key, level |-> level, sent |-> out.sent, ret |-> out.ret]
    /\ UNCHANGED <<now, config, up, pending, outbox, otherVars>>

\* the transport reports an outcome only for a message it is handed
Asked(out, ok) == out.sent = <<>> => ok

ProcessReading(r, ok) ==
    /\ up
    /\ LET out == ProcessReadingCall(states, r, ok, now, config)
       IN  Asked(out, ok) /\ Return(out, "process_reading", ReadingKey(r), GetAlertLevel(r))

ProcessContainerAlert(container_name, issue_type, level, ok) ==
    /\ up
    /\ LET out == ProcessContainerAlertCall(states, container_name, issue_type, level,
                                            ok, now, config)
       IN  Asked(out, ok) /\ Return(out, "process_container_alert",
                                    ContainerKey(container_name, issue_type), level)

ClearContainerAlert(container_name, issue_type, ok) ==
    /\ up
    /\ LET out == ClearContainerAlertCall(states, container_name, issue_type, ok, config)
       IN  Asked(out, ok) /\ Return(out, "clear_container_alert",
                                    ContainerKey(container_name, issue_type), NoLevel)

\* the weekly report asks for the statistics
BuildAlertsEmbed ==
    /\ up
    /\ Return(GetStatisticsCall(states), "get_statistics", <<>>, NoLevel)

\* the process dies inside the _save_state of one of the calls, after
\* open(state_file, "w") and before the document reaches the disk
CrashInSave ==
    /\ up
    /\ up' = FALSE
    /\ states' = EmptyMap
    /\ file' = EmptyFile
    /\ call' = [op |-> "crash"]
    /\ UNCHANGED <<now, config, pending, outbox, otherVars>>

\* the process is stopped between two calls
Stop ==
    /\ up
    /\ up' = FALSE
    /\ states' = EmptyMap
    /\ call' = [op |-> "stop"]
    /\ UNCHANGED <<file, now, config, pending, outbox, otherVars>>

\* the process starts again: AlertManager.__init__ runs _load_state
Restart ==
    /\ ~up
    /\ up' = TRUE
    /\ states' = LoadState(file)
    /\ call' = [op |-> "init"]
    /\ UNCHANGED <<file, now, config, pending, outbox, otherVars>>

\* time passes between two calls
Tick ==
    /\ now < MaxTime
    /\ now' = now + 1
    /\ UNCHANGED <<states, file, config, up, call, pending, outbox, otherVars>>

Next ==
    \/ \E r \in Readings, ok \in BOOLEAN : ProcessReading(r, ok)
    \/ \E c \in ContainerNames, i \in IssueTypes, l \in ContainerLevels, ok \in BOOLEAN :
          ProcessContainerAlert(c, i, l, ok)
    \/ \E c \in ContainerNames, i \in IssueTypes, ok \in BOOLEAN :
          ClearContainerAlert(c, i, ok)
    \/ BuildAlertsEmbed
    \/ CrashInSave
    \/ Stop
    \/ Restart
    \/ Tick

Spec == Init /\ [][Next]_vars

\* the same program started without a state file: the store is empty
InitEmptyStore == Init /\ file = NoFile

SpecEmptyStore == InitEmptyStore /\ [][Next]_vars

----------------------------------------------------------------------------
(* config.py: the start of the process.  load_config merges settings.yaml  *)
(* over DEFAULT_CONFIG, validates the result and raises ValueError if      *)
(* validate reports an error; the system monitor then builds its readings  *)
(* from the thresholds of the loaded configuration.                        *)

MetricNames == {"cpu", "memory", "disk", "temperature"}

DefaultThresholds ==
    [cpu |-> [warning |-> 80, critical |-> 95],
     memory |-> [warning |-> 85, critical |-> 95],
     disk |-> [warning |-> 80, critical |-> 95],
     temperature |-> [warning |-> 75, critical |-> 90]]

DefaultAlerts ==
    [cooldown_minutes |-> 30, recovery_enabled |-> TRUE, hysteresis_percent |-> 5]

\* DISCORD_WEBHOOK_URL: unset, no Discord webhook, a Discord webhook
WebhookUrls ==
    {"", "https://example.com/hook", "https://discord.com/api/webhooks/1/token"}

\* url.startswith("https://discord.com/api/webhooks/")
IsDiscordWebhook(url) == url = "https://discord.com/api/webhooks/1/token"

\* thresholds a settings.yaml may give: a negative number (-1 is None in
\* this model) or a number up to MaxThreshold
ThresholdValues == {-2} \cup (0..MaxThreshold)

\* _deep_merge(DEFAULT_CONFIG, yaml_config) for a settings.yaml that sets
\* the two thresholds of one metric
MergedConfigs ==
    {[discord_webhook_url |-> url,
      thresholds |-> [DefaultThresholds EXCEPT ![metric] = [warning |-> w, critical |-> c]],
      alerts |-> DefaultAlerts,
      weekly_report |-> [day |-> "sunday"]] :
        url \in WebhookUrls, metric \in MetricNames,
        w \in ThresholdValues, c \in ThresholdValues}

ValidDays ==
    {"monday", "tuesday", "wednesday", "thursday", "friday", "saturday", "sunday"}

\* Config.validate: the list of errors, as a set
Validate(cfg) ==
    (IF cfg.discord_webhook_url = "" THEN {<<"DISCORD_WEBHOOK_URL", "required">>}
     ELSE IF ~IsDiscordWebhook(cfg.discord_webhook_url)
     THEN {<<"DISCORD_WEBHOOK_URL", "invalid">>}
     ELSE {})
    \cup {<<"Threshold", metric>> : metric \in
             {m \in MetricNames :
                 cfg.thresholds[m].warning >= cfg.thresholds[m].critical}}
    \cup (IF cfg.weekly_report.day \notin ValidDays THEN {<<"Weekly report day", cfg.weekly_report.day>>} ELSE {})

\* metric_id of the reading the system monitor builds for a metric
MetricId(metric) ==
    CASE metric = "cpu" -> "cpu"
      [] metric = "memory" -> "memory"
      [] metric = "disk" -> "mnt_user"
      [] metric = "temperature" -> "coretemp_core_0"

\* MetricReading(...) in _check_cpu, _check_memory, _check_disks and
\* _check_temperatures
BuildReading(cfg, metric, value) ==
    [metric_type |-> metric, metric_id |-> MetricId(metric), value |-> value,
     warning_threshold |-> cfg.thresholds[metric].warning,
     critical_threshold |-> cfg.thresholds[metric].critical,
     context |-> IF metric = "memory" THEN MemoryContext ELSE EmptyContext]

\* the process is started: settings.yaml and the environment are there,
\* nothing is loaded yet
InitConfig ==
    /\ config \in MergedConfigs
    /\ up = FALSE
    /\ call = [op |-> "start"]
    /\ states = EmptyMap
    /\ file = NoFile
    /\ now = 0
    /\ pending = NoPending
    /\ outbox = <<>>
    /\ InitDockerMonitor
    /\ InitDatabase
    /\ InitUnraidMonitor

\* load_config, then AlertManager(...) if it returned
LoadConfig ==
    /\ ~up
    /\ call.op = "start"
    /\ LET errors == Validate(config)
       IN  /\ call' = [op |-> "load_config",
                       ret |-> IF errors # {} THEN "ValueError" ELSE "Config"]
           /\ up' = (errors = {})
    /\ states' = LoadState(file)
    /\ UNCHANGED <<config, file, now, pending, outbox, otherVars>>

\* one _check_* of the system monitor, for a value at MaxThreshold
CheckMetric(metric, ok) ==
    /\ up
    /\ LET r == BuildReading(config, metric, MaxThreshold)
           out == ProcessReadingCall(states, r, ok, now, config.alerts)
       IN  Asked(out, ok) /\ Return(out, "process_reading", ReadingKey(r), GetAlertLevel(r))

NextConfig ==
    \/ LoadConfig
    \/ \E metric \in MetricNames, ok \in BOOLEAN : CheckMetric(metric, ok)

SpecConfig == InitConfig /\ [][NextConfig]_vars

----------------------------------------------------------------------------
(* The same manager on a disk that takes no write: the directory of the   *)
(* state file is read-only, so that mkdir or open raises in every          *)
(* _save_state                                                             *)

FailingOutcomes == {"denied"}

ReturnOnDisk(out, op, key, level, wr) ==
    LET done == Complete(out, file, wr)
    IN  /\ \A i \in DOMAIN done.states : done.states[i].trigger_count <= MaxTriggers
        /\ states' = done.states
        /\ file' = done.file
        /\ call' = [op |-> IF done.raises THEN "exception" ELSE op,
                    key |-> key, level |-> level, sent |-> done.sent, ret |-> done.ret]
        /\ UNCHANGED <<now, config, up, pending, outbox, otherVars>>

ProcessReadingOnDisk(r, ok, wr) ==
    /\ up
    /\ LET out == ProcessReadingCall(states, r, ok, now, config)
       IN  Asked(out, ok) /\ ReturnOnDisk(out, "process_reading", ReadingKey(r),
                                          GetAlertLevel(r), wr)

ProcessContainerAlertOnDisk(container_name, issue_type, level, ok, wr) ==
    /\ up
    /\ LET out == ProcessContainerAlertCall(states, container_name, issue_type, level,
                                            ok, now, config)
       IN  Asked(out, ok) /\ ReturnOnDisk(out, "process_container_alert",
                                          ContainerKey(container_name, issue_type), level, wr)

ClearContainerAlertOnDisk(container_name, issue_type, ok, wr) ==
    /\ up
    /\ LET out == ClearContainerAlertCall(states, container_name, issue_type, ok, config)
       IN  Asked(out, ok) /\ ReturnOnDisk(out, "clear_container_alert",
                                          ContainerKey(container_name, issue_type), NoLevel, wr)

NextOnDisk ==
    \/ \E r \in Readings, ok \in BOOLEAN, wr \in FailingOutcomes :
          ProcessReadingOnDisk(r, ok, wr)
    \/ \E c \in ContainerNames, i \in IssueTypes, l \in ContainerLevels, ok \in BOOLEAN,
          wr \in FailingOutcomes : ProcessContainerAlertOnDisk(c, i, l, ok, wr)
    \/ \E c \in ContainerNames, i \in IssueTypes, ok \in BOOLEAN, wr \in FailingOutcomes :
          ClearContainerAlertOnDisk(c, i, ok, wr)
    \/ Stop
    \/ Restart
    \/ Tick

\* a first start: there is no state file, and none can be written
InitOnDisk == Init /\ file = NoFile

SpecOnDisk == InitOnDisk /\ [][NextOnDisk]_vars

----------------------------------------------------------------------------
(* process_reading as the event loop runs it.  The only await of a call is *)
(* the dispatch (discord.send_alert): what stands before it runs without   *)
(* interruption, then the task is suspended and other tasks run, then what *)
(* stands after it runs without interruption.  The scheduled system check  *)
(* and the weekly report are separate tasks that both reach                *)
(* process_reading through SystemMonitor.check.                            *)

\* the framing of the message of _handle_threshold_exceeded: first alert,
\* "Escalated: " or repeat with duration
Framing(s, level) ==
    IF ~s.is_active THEN "new"
    ELSE IF ShouldEscalate(s, level) THEN "escalation"
    ELSE "repeat"

\* process_reading up to its await: the state as assigned so far and the
\* message about to be handed to the transport, if any
BeforeAwait(s0, r, t, cfg) ==
    LET level == GetAlertLevel(r)
    IN  IF level # NoLevel
        THEN HandleThresholdExceeded(s0, r, level, FALSE, t, cfg)
        ELSE IF s0.is_active /\ cfg.recovery_enabled
                /\ ~IsAboveThreshold(r, cfg.hysteresis_percent)
        THEN [state |-> s0, sent |-> <<RECOVERY>>, ret |-> FALSE]
        ELSE IF s0.is_active
        THEN HandleRecovery(s0, r, FALSE, cfg)
        ELSE [state |-> s0, sent |-> <<>>, ret |-> FALSE]

\* process_reading from its await on, the transport reporting ok: the tail
\* of _send_alert, or the reset of _handle_recovery
AfterAwait(s, level, ok, t) ==
    IF level = RECOVERY
    THEN [s EXCEPT !.is_active = FALSE, !.first_triggered = None, !.level = WARNING]
    ELSE SendAlert(s, level, ok, t).state

\* a task enters process_reading and runs to the await, or to the end if
\* the call sends nothing
BeginProcessReading(task, r) ==
    /\ up
    /\ pending[task] = Idle
    /\ LET key == ReadingKey(r)
           m0 == GetOrCreate(states, key)
           s0 == [m0[key] EXCEPT !.current_value = r.value]
           before == BeforeAwait(s0, r, now, config)
           m1 == Put(m0, key, before.state)
       IN  /\ before.state.trigger_count <= MaxTriggers
           /\ states' = m1
           /\ IF before.sent = <<>>
              THEN /\ file' = SaveState(m1)
                   /\ UNCHANGED <<pending, outbox>>
              ELSE /\ Len(outbox) < MaxOutbox
                   /\ outbox' = Append(outbox,
                                       [key |-> key,
                                        level |-> before.sent[1],
                                        framing |-> IF before.sent[1] = RECOVERY
                                                    THEN "recovery"
                                                    ELSE Framing(s0, before.sent[1]),
                                        at |-> now,
                                        delivered |-> FALSE])
                   /\ pending' = [pending EXCEPT ![task] =
                                      [pc |-> "send_alert", key |-> key,
                                       level |-> before.sent[1],
                                       message |-> Len(outbox) + 1]]
                   /\ UNCHANGED file
    /\ UNCHANGED <<now, config, up, call, otherVars>>

\* the transport answers and the suspended call runs to its end
ResumeProcessReading(task, ok) ==
    /\ up
    /\ pending[task] # Idle
    /\ LET p == pending[task]
           m1 == Put(states, p.key, AfterAwait(states[p.key], p.level, ok, now))
       IN  /\ states' = m1
           /\ file' = SaveState(m1)
           /\ outbox' = [outbox EXCEPT ![p.message].delivered = ok]
    /\ pending' = [pending EXCEPT ![task] = Idle]
    /\ UNCHANGED <<now, config, up, call, otherVars>>

\* time passes, also while calls are suspended
TickAsync ==
    /\ now < MaxTime
    /\ now' = now + 1
    /\ UNCHANGED <<states, file, config, up, call, pending, outbox, otherVars>>

\* a first start without a state file
InitAsync == Init /\ file = NoFile

NextAsync ==
    \/ \E task \in Callers, r \in Readings : BeginProcessReading(task, r)
    \/ \E task \in Callers, ok \in BOOLEAN : ResumeProcessReading(task, ok)
    \/ TickAsync

SpecAsync == InitAsync /\ [][NextAsync]_vars

----------------------------------------------------------------------------
(* monitors/docker_monitor.py and monitors/base.py: safe_check of the      *)
(* Docker monitor.  One poll lists the container, compares its status with *)
(* the one of the poll before and calls the alert manager for what it      *)
(* finds; the transport answers every message of one poll alike.           *)

MaxRestarts == 1

\* DockerConfig: the restart loop is three restarts in sixty minutes by
\* default, two restarts in one minute here
DockerConfig ==
    [monitor_restarts |-> TRUE, restart_threshold |-> 2, restart_window_minutes |-> 1]

\* ContainerStatus, as far as _check_container_issues reads it, of a
\* container with a health check; a container that is created again starts
\* with the restart count 0
ContainerStatuses ==
    [status : {"running", "exited"},
     health : {"healthy", "unhealthy", "starting"},
     restart_count : 0..MaxRestarts]

IsRunning(st) == st.status = "running"

\* no call of the alert manager was made yet in this poll
NoCalls(m) == [states |-> m, sent |-> <<>>, save |-> FALSE]

\* one more awaited call of the alert manager in the same poll
Then(acc, out) ==
    [states |-> out.states, sent |-> acc.sent \o out.sent, save |-> acc.save \/ out.save]

CheckRestartFrequencyCall(acc, prev, hist, name, status, ok, t, cfg) ==
    IF HasKey(prev, name) /\ status.restart_count > prev[name].restart_count
    THEN LET recorded == Append(IF HasKey(hist, name) THEN hist[name] ELSE <<>>, t)
             recent == SelectSeq(recorded,
                                 LAMBDA x : x > t - DockerConfig.restart_window_minutes)
         IN  [calls |-> IF Len(recent) >= DockerConfig.restart_threshold
                        THEN Then(acc, ProcessContainerAlertCall(
                                           acc.states, name, "restart_loop", CRITICAL,
                                           ok, t, cfg))
                        ELSE acc,
              history |-> Put(hist, name, recent)]
    ELSE [calls |-> acc, history |-> hist]

\* _check_container_issues for the status current of the container name,
\* with the statuses prev of the poll before
CheckContainerIssuesCall(m, prev, hist, name, current, ok, t, cfg) ==
    LET known == HasKey(prev, name)
        c0 == NoCalls(m)
        c1 == IF current.status \in {"exited", "dead"} /\ known /\ IsRunning(prev[name])
              THEN Then(c0, ProcessContainerAlertCall(c0.states, name, "stopped", WARNING,
                                                      ok, t, cfg))
              ELSE c0
        c2 == IF current.health = "unhealthy"
                 /\ (~known \/ prev[name].health # "unhealthy")
              THEN Then(c1, ProcessContainerAlertCall(c1.states, name, "unhealthy", WARNING,
                                                      ok, t, cfg))
              ELSE c1
        c3 == IF current.health = "healthy" /\ known /\ prev[name].health = "unhealthy"
              THEN Then(c2, ClearContainerAlertCall(c2.states, name, "unhealthy", ok, cfg))
              ELSE c2
        c4 == IF DockerConfig.monitor_restarts
              THEN CheckRestartFrequencyCall(c3, prev, hist, name, current, ok, t, cfg)
              ELSE [calls |-> c3, history |-> hist]
        c5 == IF IsRunning(current) /\ known /\ ~IsRunning(prev[name])
              THEN Then(c4.calls,
                        ClearContainerAlertCall(c4.calls.states, name, "stopped", ok, cfg))
              ELSE c4.calls
    IN  [states |-> c5.states, sent |-> c5.sent, save |-> c5.save, history |-> c4.history]

\* why a check did not list the container: docker.from_env raises
\* DockerException, containers.list raises DockerException, or an exception
\* that is no DockerException leaves check
CheckFailures == {"connect_failed", "list_failed", "raised"}

\* the dictionary check returns after it has listed the container
CheckData(current) == [error |-> FALSE, containers |-> <<current>>]

\* {"error": ..., "containers": []}
ErrorData == [error |-> TRUE, containers |-> <<>>]

\* DockerMonitor.check that lists the container name with the status current
CheckCall(m, prev, hist, name, current, ok, t, cfg) ==
    LET issues == CheckContainerIssuesCall(m, prev, hist, name, current, ok, t, cfg)
    IN  [states |-> issues.states, sent |-> issues.sent, save |-> issues.save,
         previous |-> Put(prev, name, current), history |-> issues.history,
         raises |-> FALSE, result |-> CheckData(current)]

\* DockerMonitor.check that does not get to list the container
CheckFailedCall(m, prev, hist, failure) ==
    [states |-> m, sent |-> <<>>, save |-> FALSE,
     previous |-> prev, history |-> hist,
     raises |-> (failure = "raised"), result |-> ErrorData]

\* safe_check: the new _last_check_data after the check chk
SafeCheckCall(last, chk) == IF chk.raises THEN last ELSE chk.result

\* get_last_data
GetLastData(last) == last

\* what a finished safe_check leaves behind
Checked(chk, outcome) ==
    /\ \A k \in DOMAIN chk.states : chk.states[k].trigger_count <= MaxTriggers
    /\ \A c \in DOMAIN chk.history :
          Len(chk.history[c]) <= DockerConfig.restart_threshold
    /\ states' = chk.states
    /\ file' = IF chk.save THEN SaveState(chk.states) ELSE file
    /\ previous_states' = chk.previous
    /\ restart_history' = chk.history
    /\ last_check_data' = SafeCheckCall(last_check_data, chk)
    /\ call' = [op |-> "safe_check", key |-> <<"docker", outcome>>, level |-> NoLevel,
                sent |-> chk.sent, ret |-> ~chk.raises]
    /\ UNCHANGED <<now, config, up, pending, outbox,
                   today, alert_history, answer, monitor, discord, tasks>>

\* one run of the scheduled Docker check that lists the container
SafeCheck(name, current, ok) ==
    /\ up
    /\ Checked(CheckCall(states, previous_states, restart_history, name, current, ok,
                         now, config), "listed")

\* one run of the scheduled Docker check while Docker does not answer
SafeCheckFailed(failure) ==
    /\ up
    /\ Checked(CheckFailedCall(states, previous_states, restart_history, failure), failure)

\* an empty store, and recovery notifications as they are by default
InitDocker == Init /\ file = NoFile /\ config.recovery_enabled

NextDocker ==
    \/ \E c \in ContainerNames, st \in ContainerStatuses, ok \in BOOLEAN : SafeCheck(c, st, ok)
    \/ \E f \in CheckFailures : SafeCheckFailed(f)
    \/ Tick

SpecDocker == InitDocker /\ [][NextDocker]_vars

----------------------------------------------------------------------------
(* database/connection.py: the table alert_history and the two functions   *)
(* that compute a cutoff from today's date.  A date is a month and a day   *)
(* of a year that is no leap year; a timestamp is kept as the number of    *)
(* its day in that year, 0 and below for the days of the year before.      *)

MaxKeepDays == 2
MaxRows == 2
MaxAge == 3

Months == 1..12

DaysInMonth(month) ==
    CASE month \in {4, 6, 9, 11} -> 30
      [] month = 2 -> 28
      [] OTHER -> 31

Dates == {d \in [month : Months, day : 1..31] : d.day <= DaysInMonth(d.month)}

RECURSIVE DaysBefore(_)
DaysBefore(month) ==
    IF month = 1 THEN 0 ELSE DaysBefore(month - 1) + DaysInMonth(month - 1)

\* the number of the day in the year
Ordinal(d) == DaysBefore(d.month) + d.day

\* datetime.replace(day=day): ValueError unless the month has such a day
ReplaceDay(d, day) ==
    IF day \in 1..DaysInMonth(d.month)
    THEN [raises |-> FALSE, ordinal |-> Ordinal([d EXCEPT !.day = day])]
    ELSE [raises |-> TRUE, ordinal |-> 0]

\* cleanup_old_alerts(keep_days) on the rows of the table
CleanupOldAlertsCall(d, rows, keep_days) ==
    LET cutoff == ReplaceDay(d, d.day - keep_days)
        kept == SelectSeq(rows, LAMBDA x : ~(x < cutoff.ordinal))
    IN  IF cutoff.raises
        THEN [raises |-> TRUE, value |-> 0, rows |-> rows]
        ELSE [raises |-> FALSE, value |-> Len(rows) - Len(kept), rows |-> kept]

\* get_alert_stats(days): the total of the counts
GetAlertStatsCall(d, rows, days) ==
    LET since == ReplaceDay(d, d.day - days + 1)
    IN  IF since.raises
        THEN [raises |-> TRUE, value |-> 0, rows |-> rows]
        ELSE [raises |-> FALSE,
              value |-> Len(SelectSeq(rows, LAMBDA x : x >= since.ordinal)),
              rows |-> rows]

\* the tables a running program can have: at most MaxRows alerts of the
\* last MaxAge days, in the order they were added
Histories(d) ==
    {h \in UNION {[1..n -> (Ordinal(d) - MaxAge)..Ordinal(d)] : n \in 0..MaxRows} :
        \A i \in 1..(Len(h) - 1) : h[i] <= h[i + 1]}

\* what a call of the Database leaves behind
Answered(op, out) ==
    /\ alert_history' = out.rows
    /\ answer' = [op |-> op, raises |-> out.raises, value |-> out.value]
    /\ UNCHANGED <<states, file, now, config, up, call, pending, outbox,
                   previous_states, restart_history, last_check_data,
                   today, monitor, discord, tasks>>

\* add_alert of an alert of today; the id it returns is counted from the
\* rows that are present
AddAlert ==
    /\ Len(alert_history) < MaxRows
    /\ Answered("add_alert", [raises |-> FALSE, value |-> Len(alert_history) + 1,
                              rows |-> Append(alert_history, Ordinal(today))])

CleanupOldAlerts(keep_days) ==
    Answered("cleanup_old_alerts", CleanupOldAlertsCall(today, alert_history, keep_days))

GetAlertStats(days) ==
    Answered("get_alert_stats", GetAlertStatsCall(today, alert_history, days))

\* the database on any day of the year, the alert manager just constructed
InitCalendar ==
    /\ states = EmptyMap
    /\ file = NoFile
    /\ now = 0
    /\ config \in Configs
    /\ config.recovery_enabled
    /\ up = TRUE
    /\ call = [op |-> "init"]
    /\ pending = NoPending
    /\ outbox = <<>>
    /\ InitDockerMonitor
    /\ InitUnraidMonitor
    /\ today \in Dates
    /\ alert_history \in Histories(today)
    /\ answer = NoAnswer

NextCalendar ==
    \/ AddAlert
    \/ \E keep_days \in 1..MaxKeepDays : CleanupOldAlerts(keep_days)
    \/ \E days \in 1..MaxKeepDays : GetAlertStats(days)

SpecCalendar == InitCalendar /\ [][NextCalendar]_vars

----------------------------------------------------------------------------
(* main.py and discord_client.py: start and shutdown.  main() awaits        *)
(* UnraidMonitor.start and then, in its finally, UnraidMonitor.stop; the    *)
(* handler of SIGTERM and of SIGINT creates a task that runs stop as well.  *)
(* A task runs without interruption between two awaits.                     *)

MaxJobs == 1

\* send_message: _get_session opens a session if there is none, then the
\* message is posted; after_close tells that a session had been closed before
SendMessage(d, kind) ==
    [d EXCEPT !.session = TRUE,
              !.messages = Append(@, [kind |-> kind, after_close |-> d.closes > 0])]

\* DiscordClient.close
Close(d) == IF d.session THEN [d EXCEPT !.session = FALSE, !.closes = @ + 1] ELSE d

\* the alert messages sent so far
Alerts(d) == SelectSeq(d.messages, LAMBDA msg : msg.kind = "alert")

\* the variables that start and stop leave alone
managerVars ==
    <<states, file, now, config, up, call, pending, outbox,
      previous_states, restart_history, last_check_data, today, alert_history, answer>>

\* main() reaches await monitor.start(): start runs up to its first await
Start ==
    /\ tasks["main"] = "idle"
    /\ monitor' = [monitor EXCEPT !.running = TRUE, !.web = TRUE]
    /\ discord' = SendMessage(discord, "startup")
    /\ tasks' = [tasks EXCEPT !["main"] = "checks"]
    /\ UNCHANGED managerVars

\* start after the startup message: the jobs are added, the initial checks
\* run and the scheduler is started
RunInitialChecks ==
    /\ tasks["main"] = "checks"
    /\ monitor' = [monitor EXCEPT !.scheduler = TRUE]
    /\ tasks' = [tasks EXCEPT !["main"] = "loop"]
    /\ UNCHANGED <<discord, managerVars>>

\* a scheduled check sends an alert
Job ==
    /\ monitor.scheduler
    /\ Len(Alerts(discord)) < MaxJobs
    /\ discord' = SendMessage(discord, "alert")
    /\ UNCHANGED <<monitor, tasks, managerVars>>

\* signal_handler: asyncio.create_task(monitor.stop())
Signal(sig) ==
    /\ tasks["main"] \in {"checks", "loop"}
    /\ tasks[sig] = "idle"
    /\ tasks' = [tasks EXCEPT ![sig] = "stop"]
    /\ UNCHANGED <<monitor, discord, managerVars>>

\* the task is about to run stop: a task of the signal handler that was
\* created, or main() when the loop of start ends
EntersStop(t) ==
    IF t = "main" THEN tasks[t] = "loop" /\ ~monitor.running ELSE tasks[t] = "stop"

\* stop up to its first await: web_ui.stop() while the web task runs, the
\* post of the shutdown message otherwise
StopBegin(t) ==
    /\ EntersStop(t)
    /\ monitor' = [monitor EXCEPT !.running = FALSE, !.scheduler = FALSE]
    /\ IF monitor.web
       THEN /\ tasks' = [tasks EXCEPT ![t] = "web"]
            /\ UNCHANGED discord
       ELSE /\ tasks' = [tasks EXCEPT ![t] = "close"]
            /\ discord' = SendMessage(discord, "shutdown")
    /\ UNCHANGED managerVars

\* stop after the web UI has stopped: the shutdown message
StopNotify(t) ==
    /\ tasks[t] = "web"
    /\ monitor' = [monitor EXCEPT !.web = FALSE]
    /\ discord' = SendMessage(discord, "shutdown")
    /\ tasks' = [tasks EXCEPT ![t] = "close"]
    /\ UNCHANGED managerVars

\* stop after the shutdown message: the sessions are closed; when main()
\* returns, asyncio.run cancels the tasks that are left
StopClose(t) ==
    /\ tasks[t] = "close"
    /\ discord' = Close(discord)
    /\ tasks' = [x \in Tasks |->
                    IF x = t THEN "done"
                    ELSE IF t = "main" /\ tasks[x] \notin {"idle", "done"} THEN "cancelled"
                    ELSE tasks[x]]
    /\ UNCHANGED <<monitor, managerVars>>

InitMain == Init /\ file = NoFile /\ config.recovery_enabled

NextMain ==
    \/ Start
    \/ RunInitialChecks
    \/ Job
    \/ \E sig \in Tasks \ {"main"} : Signal(sig)
    \/ \E t \in Tasks : StopBegin(t)
    \/ \E t \in Tasks : StopNotify(t)
    \/ \E t \in Tasks : StopClose(t)

SpecMain == InitMain /\ [][NextMain]_vars

----------------------------------------------------------------------------
(* Properties.  A property of one call is stated for every reachable state *)
(* of the manager and every input of the call.                             *)

\* the reading is at or above a threshold it carries
Breaches(r) ==
    \/ r.warning_threshold # None /\ r.value >= r.warning_threshold
    \/ r.critical_threshold # None /\ r.value >= r.critical_threshold

\* the severity of a breaching reading
Severity(r) ==
    IF r.critical_threshold # None /\ r.value >= r.critical_threshold
    THEN CRITICAL ELSE WARNING

ActiveKey(key) == HasKey(states, key) /\ states[key].is_active

WithinCooldown(key) ==
    /\ states[key].last_alert_sent # None
    /\ now - states[key].last_alert_sent < config.cooldown_minutes

EngineOps == {"process_reading", "process_container_alert", "clear_container_alert"}

\* C1 -- cooldown suppression: for an active key whose last_alert_sent is
\* less than cooldown_minutes ago, process_reading with a breaching reading
\* that is no WARNING-to-CRITICAL escalation sends nothing, returns false,
\* leaves trigger_count as it was and sets current_value to the reading's value.
C1_CooldownSuppression ==
    up => \A r \in Readings, ok \in BOOLEAN :
        LET key == ReadingKey(r)
            out == ProcessReadingCall(states, r, ok, now, config)
        IN  (/\ ActiveKey(key)
             /\ WithinCooldown(key)
             /\ Breaches(r)
             /\ ~(states[key].level = WARNING /\ Severity(r) = CRITICAL))
            => /\ out.sent = <<>>
               /\ out.ret = FALSE
               /\ out.states[key].trigger_count = states[key].trigger_count
               /\ out.states[key].current_value = r.value

\* a breaching reading has just been suppressed within the cooldown
C1_Witness ==
    /\ up
    /\ call.op = "process_reading"
    /\ call.level # NoLevel
    /\ call.sent = <<>>
    /\ ~call.ret
    /\ ActiveKey(call.key)
    /\ WithinCooldown(call.key)
    /\ states[call.key].trigger_count = 1
    /\ states[call.key].current_value >= WarningThreshold

\* C2 -- escalation bypasses the cooldown: for a key active at WARNING,
\* process_reading with a reading classified CRITICAL sends a message in that
\* call however recent last_alert_sent is, the level becomes CRITICAL and
\* trigger_count grows by one.
C2_EscalationBypassesCooldown ==
    up => \A r \in Readings, ok \in BOOLEAN :
        LET key == ReadingKey(r)
            out == ProcessReadingCall(states, r, ok, now, config)
        IN  (/\ ActiveKey(key)
             /\ states[key].level = WARNING
             /\ Breaches(r)
             /\ Severity(r) = CRITICAL)
            => /\ out.sent = <<CRITICAL>>
               /\ out.ret = ok
               /\ out.states[key].level = CRITICAL
               /\ out.states[key].trigger_count = states[key].trigger_count + 1

\* an escalation has just been sent in the minute of the first alert, well
\* inside the cooldown
C2_Witness ==
    /\ up
    /\ call.op = "process_reading"
    /\ call.level = CRITICAL
    /\ call.sent = <<CRITICAL>>
    /\ ActiveKey(call.key)
    /\ states[call.key].level = CRITICAL
    /\ states[call.key].threshold_value = CriticalThreshold
    /\ states[call.key].trigger_count = 2
    /\ states[call.key].first_triggered = now
    /\ config.cooldown_minutes > 0

\* C3 -- the first alert always fires: for a key that is unknown or inactive,
\* process_reading with a breaching reading sends a message whatever the
\* cooldown and whatever last_alert_sent an earlier episode left; the state
\* becomes active, first_triggered is set and level is the reading's severity.
C3_FirstAlertFires ==
    up => \A r \in Readings, ok \in BOOLEAN :
        LET key == ReadingKey(r)
            out == ProcessReadingCall(states, r, ok, now, config)
        IN  (~ActiveKey(key) /\ Breaches(r))
            => /\ out.sent = <<Severity(r)>>
               /\ out.ret = ok
               /\ out.states[key].is_active
               /\ out.states[key].first_triggered = now
               /\ out.states[key].first_triggered # None
               /\ out.states[key].level = Severity(r)

\* a first alert of a new episode has just been handed to the transport
\* (which failed) although the last_alert_sent of the earlier episode is
\* still within the cooldown
C3_Witness ==
    /\ up
    /\ call.op = "process_reading"
    /\ call.level # NoLevel
    /\ call.sent = <<call.level>>
    /\ ~call.ret
    /\ ActiveKey(call.key)
    /\ states[call.key].trigger_count = 1
    /\ states[call.key].first_triggered = now
    /\ WithinCooldown(call.key)

\* C4 -- hysteresis: for an active key and a reading below its thresholds
\* that carries the warning threshold w, process_reading recovers the alert
\* exactly if value < w - hysteresis_percent; a reading with
\* w - hysteresis_percent <= value < w leaves the alert active, sends nothing
\* and returns false.
C4_Hysteresis ==
    up => \A r \in Readings, ok \in BOOLEAN :
        LET key == ReadingKey(r)
            out == ProcessReadingCall(states, r, ok, now, config)
            floor == r.warning_threshold - config.hysteresis_percent
        IN  (/\ ActiveKey(key)
             /\ r.warning_threshold # None
             /\ ~Breaches(r))
            => /\ (~out.states[key].is_active) <=> (r.value < floor)
               /\ (r.value >= floor) =>
                      /\ out.states[key].is_active
                      /\ out.sent = <<>>
                      /\ out.ret = FALSE

\* a reading inside the hysteresis band has just left the alert active
C4_Witness ==
    /\ up
    /\ call.op = "process_reading"
    /\ call.level = NoLevel
    /\ call.sent = <<>>
    /\ ActiveKey(call.key)
    /\ states[call.key].threshold_value = WarningThreshold
    /\ states[call.key].current_value < WarningThreshold
    /\ states[call.key].current_value >= WarningThreshold - config.hysteresis_percent

\* C5 -- a failed dispatch does not arm the cooldown: when the message that
\* process_reading sent for a breaching reading was reported as failed, the
\* next process_reading for that key with a reading of the same severity
\* sends a message again, however soon it comes.
C5_FailedDispatchRetried ==
    (/\ up
     /\ call.op = "process_reading"
     /\ call.level # NoLevel
     /\ call.sent = <<call.level>>
     /\ ~call.ret)
    => \A r \in Readings, ok \in BOOLEAN :
          (ReadingKey(r) = call.key /\ Breaches(r) /\ Severity(r) = call.level)
          => ProcessReadingCall(states, r, ok, now, config).sent # <<>>

\* C6 -- trigger_count is monotonic: no call of process_reading,
\* process_container_alert or clear_container_alert makes the trigger_count
\* of a key smaller, a new breach after a recovery included.
C6_TriggerCountMonotonic ==
    [][(up /\ up') =>
          \A key \in (DOMAIN states) \cap (DOMAIN states') :
              states'[key].trigger_count >= states[key].trigger_count]_vars

\* C7 -- the persisted snapshot is current after every operation: after every
\* completed call of process_reading, process_container_alert or
\* clear_container_alert the state file holds exactly the keys and the field
\* values of the in-memory map.
C7_SnapshotCurrent ==
    (up /\ call.op \in EngineOps) => LoadState(file) = states

\* C8 -- crash-safe save: after a crash during _save_state the state file is
\* the complete snapshot written before or the complete new one, never an
\* empty or truncated document.
C8_CrashSafeSave ==
    call.op = "crash" => (~file.exists \/ file.complete)

\* the state file does not load: it is no JSON document, or one of its
\* records makes from_dict raise
FailsToLoad(f) ==
    f.exists /\ (~f.complete \/ \E i \in 1..Len(f.recs) : FromDictRaises(f.recs[i].data))

\* C9 -- fail-open load: after construction, a missing state file and a state
\* file that fails to load both leave the state map empty, never partially
\* populated.
C9_FailOpenLoad ==
    (up /\ call.op = "init") =>
        ((~file.exists \/ FailsToLoad(file)) => states = EmptyMap)

\* C10 -- round-trip persistence: every reachable state map, written by
\* _save_state and read by _load_state of a fresh manager, comes back with
\* the same keys and the same AlertState field for field, null timestamps
\* and null numbers included.
C10_RoundTrip ==
    up => LoadState(SaveState(states)) = states

\* a manager has just been constructed from the file an earlier run wrote:
\* an active alert with both timestamps and without a value, and a recovered
\* one with a null first_triggered, came back as they were saved
C10_Witness ==
    /\ up
    /\ call.op = "init"
    /\ file = SaveState(states)
    /\ \E key \in DOMAIN states :
          /\ states[key].is_active
          /\ states[key].first_triggered # None
          /\ states[key].last_alert_sent # None
          /\ states[key].last_alert_sent # states[key].first_triggered
          /\ states[key].current_value = None
    /\ \E key \in DOMAIN states :
          /\ ~states[key].is_active
          /\ states[key].first_triggered = None
          /\ states[key].trigger_count > 0
          /\ states[key].context # EmptyContext

\* C11 -- no de-escalation: for a key active at CRITICAL, process_reading with
\* a reading classified WARNING is a repeat under the cooldown (nothing sent
\* within it, one message after it) and leaves the level at CRITICAL; and
\* whatever the reading, the level of a key active at CRITICAL is WARNING
\* after process_reading only if the call recovered the alert.
C11_NoDeEscalation ==
    up => \A r \in Readings, ok \in BOOLEAN :
        LET key == ReadingKey(r)
            out == ProcessReadingCall(states, r, ok, now, config)
        IN  (ActiveKey(key) /\ states[key].level = CRITICAL)
            => /\ (Breaches(r) /\ Severity(r) = WARNING) =>
                      /\ out.states[key].is_active
                      /\ out.states[key].level = CRITICAL
                      /\ WithinCooldown(key) =>
                             /\ out.sent = <<>>
                             /\ out.ret = FALSE
                             /\ out.states[key].trigger_count = states[key].trigger_count
                      /\ ~WithinCooldown(key) =>
                             /\ out.sent = <<WARNING>>
                             /\ out.states[key].trigger_count = states[key].trigger_count + 1
               /\ out.states[key].level # CRITICAL =>
                      /\ ~Breaches(r)
                      /\ ~out.states[key].is_active
                      /\ out.states[key].level = WARNING

\* a WARNING reading has just been suppressed on an alert that stays CRITICAL
C11_Witness ==
    /\ up
    /\ call.op = "process_reading"
    /\ call.level = WARNING
    /\ call.sent = <<>>
    /\ ActiveKey(call.key)
    /\ states[call.key].level = CRITICAL
    /\ states[call.key].threshold_value = WarningThreshold
    /\ states[call.key].current_value = WarningThreshold

\* C12 -- recovery reset: whenever process_reading turns an active key
\* inactive, the new state has first_triggered null and level WARNING while
\* trigger_count and last_alert_sent are what they were before the call, with
\* recovery messages enabled or disabled, delivered or failed.
C12_RecoveryReset ==
    up => \A r \in Readings, ok \in BOOLEAN :
        LET key == ReadingKey(r)
            out == ProcessReadingCall(states, r, ok, now, config)
        IN  (ActiveKey(key) /\ ~out.states[key].is_active)
            => /\ out.states[key].first_triggered = None
               /\ out.states[key].level = WARNING
               /\ out.states[key].trigger_count = states[key].trigger_count
               /\ out.states[key].last_alert_sent = states[key].last_alert_sent
               /\ out.sent = IF config.recovery_enabled THEN <<RECOVERY>> ELSE <<>>
               /\ out.ret = (config.recovery_enabled /\ ok)

\* an alert that was sent twice has just recovered, the recovery message
\* delivered, in a later minute than its last alert
C12_Witness ==
    /\ up
    /\ call.op = "process_reading"
    /\ call.level = NoLevel
    /\ call.sent = <<RECOVERY>>
    /\ call.ret
    /\ HasKey(states, call.key)
    /\ ~states[call.key].is_active
    /\ states[call.key].first_triggered = None
    /\ states[call.key].level = WARNING
    /\ states[call.key].trigger_count = 2
    /\ states[call.key].last_alert_sent # None
    /\ states[call.key].last_alert_sent < now

\* the last_alert_sent of a key before a call; None for a key not yet known
LastAlertSentBefore(key) ==
    IF HasKey(states, key) THEN states[key].last_alert_sent ELSE None

\* the call handed a breach or container issue message to the transport and
\* the transport reported success
Delivered(out, ok) == out.sent # <<>> /\ out.sent[1] # RECOVERY /\ ok

\* last_alert_sent of every key after a call: the current time for the key of
\* a delivered alert, the old value otherwise
StampedOnlyOnDelivery(out, key, ok) ==
    \A k \in DOMAIN out.states :
        out.states[k].last_alert_sent =
            IF k = key /\ Delivered(out, ok) THEN now ELSE LastAlertSentBefore(k)

\* C13 -- last_alert_sent changes only on a successful alert dispatch:
\* process_reading and process_container_alert set the last_alert_sent of
\* their key to the current time exactly when they handed a breach or issue
\* message to the transport and it reported success; failed dispatches,
\* suppressed and non-breaching readings, recovery and clear_container_alert
\* leave every last_alert_sent as it was.
C13_LastAlertSent ==
    up => /\ \A r \in Readings, ok \in BOOLEAN :
                StampedOnlyOnDelivery(ProcessReadingCall(states, r, ok, now, config),
                                      ReadingKey(r), ok)
          /\ \A c \in ContainerNames, i \in IssueTypes, l \in ContainerLevels, ok \in BOOLEAN :
                StampedOnlyOnDelivery(
                    ProcessContainerAlertCall(states, c, i, l, ok, now, config),
                    ContainerKey(c, i), ok)
          /\ \A c \in ContainerNames, i \in IssueTypes, ok \in BOOLEAN :
                LET out == ClearContainerAlertCall(states, c, i, ok, config)
                IN  \A k \in DOMAIN out.states :
                        out.states[k].last_alert_sent = LastAlertSentBefore(k)

\* a repeat has just failed in a later minute than the delivered first alert:
\* last_alert_sent is still the time of the first alert
C13_Witness ==
    /\ up
    /\ call.op = "process_reading"
    /\ call.level # NoLevel
    /\ call.sent = <<call.level>>
    /\ ~call.ret
    /\ ActiveKey(call.key)
    /\ states[call.key].trigger_count = 2
    /\ states[call.key].last_alert_sent # None
    /\ states[call.key].last_alert_sent < now

\* C14 -- container issue processing: process_container_alert sends nothing
\* and changes no state for a key that is active and within the cooldown;
\* otherwise it sends one message, and on success marks the key active, sets
\* first_triggered only if the key was inactive, makes trigger_count one
\* larger and sets last_alert_sent; on failure it returns false and leaves
\* is_active, first_triggered, trigger_count, level and last_alert_sent alone.
C14_ContainerIssue ==
    up => \A c \in ContainerNames, i \in IssueTypes, l \in ContainerLevels, ok \in BOOLEAN :
        LET key == ContainerKey(c, i)
            before == IF HasKey(states, key) THEN states[key] ELSE NewAlertState(key)
            out == ProcessContainerAlertCall(states, c, i, l, ok, now, config)
            after == out.states[key]
        IN  IF ActiveKey(key) /\ WithinCooldown(key)
            THEN out.sent = <<>> /\ out.ret = FALSE /\ out.states = states
            ELSE /\ out.sent = <<l>>
                 /\ out.ret = ok
                 /\ ok => /\ after.is_active
                          /\ after.first_triggered =
                                 IF before.is_active THEN before.first_triggered ELSE now
                          /\ after.trigger_count = before.trigger_count + 1
                          /\ after.last_alert_sent = now
                 /\ ~ok => /\ after.is_active = before.is_active
                           /\ after.first_triggered = before.first_triggered
                           /\ after.trigger_count = before.trigger_count
                           /\ after.level = before.level
                           /\ after.last_alert_sent = before.last_alert_sent

\* C15 -- clear_container_alert acts only on an active key: for an unknown or
\* inactive key it sends nothing, changes no state and returns false; for an
\* active key it sends one recovery message if recovery messages are enabled
\* and none otherwise, sets is_active false and first_triggered null whatever
\* the transport reports, changes nothing else, and returns what the
\* transport reported (false when nothing was sent).
C15_ClearContainerAlert ==
    up => \A c \in ContainerNames, i \in IssueTypes, ok \in BOOLEAN :
        LET key == ContainerKey(c, i)
            out == ClearContainerAlertCall(states, c, i, ok, config)
        IN  IF ~ActiveKey(key)
            THEN out.sent = <<>> /\ out.ret = FALSE /\ out.states = states
            ELSE /\ out.sent = IF config.recovery_enabled THEN <<RECOVERY>> ELSE <<>>
                 /\ out.ret = (config.recovery_enabled /\ ok)
                 /\ out.states = [states EXCEPT ![key].is_active = FALSE,
                                                ![key].first_triggered = None]

\* a container alert has just been cleared although its recovery message
\* failed
C15_Witness ==
    /\ up
    /\ call.op = "clear_container_alert"
    /\ call.sent = <<RECOVERY>>
    /\ ~call.ret
    /\ HasKey(states, call.key)
    /\ ~states[call.key].is_active
    /\ states[call.key].first_triggered = None
    /\ states[call.key].last_alert_sent # None
    /\ states[call.key].trigger_count >= 1

\* C20 -- classification gives critical priority: get_alert_level is CRITICAL
\* when a critical threshold is present and reached, otherwise WARNING when a
\* warning threshold is present and reached, otherwise none; so the first
\* breaching reading of a key that is at or above both thresholds gives one
\* message, at CRITICAL, state level CRITICAL and trigger_count 1.
C20_CriticalPriority ==
    up => \A r \in Readings, ok \in BOOLEAN :
        LET key == ReadingKey(r)
            out == ProcessReadingCall(states, r, ok, now, config)
            critical == r.critical_threshold # None /\ r.value >= r.critical_threshold
            warning == r.warning_threshold # None /\ r.value >= r.warning_threshold
        IN  /\ critical => GetAlertLevel(r) = CRITICAL
            /\ (~critical /\ warning) => GetAlertLevel(r) = WARNING
            /\ (~critical /\ ~warning) => GetAlertLevel(r) = NoLevel
            /\ (~ActiveKey(key) /\ critical /\ warning)
               => /\ out.sent = <<CRITICAL>>
                  /\ out.states[key].level = CRITICAL
                  /\ out.states[key].trigger_count = 1
                  /\ out.states[key].threshold_value = r.critical_threshold

\* the first alert of a key has just been sent at CRITICAL for a reading that
\* carries both thresholds and is above both
C20_Witness ==
    /\ up
    /\ call.op = "process_reading"
    /\ call.level = CRITICAL
    /\ call.sent = <<CRITICAL>>
    /\ call.ret
    /\ ActiveKey(call.key)
    /\ states[call.key].level = CRITICAL
    /\ states[call.key].trigger_count = 1
    /\ states[call.key].current_value >= CriticalThreshold
    /\ CriticalThreshold > WarningThreshold
    /\ states[call.key].last_alert_sent = states[call.key].first_triggered


\* trigger_count of the key at place i of KeyOrder, 0 for a key not known
TriggersAt(i) ==
    IF HasKey(states, KeyOrder[i]) THEN states[KeyOrder[i]].trigger_count ELSE 0

\* C16 -- get_statistics is read-only and consistent: it changes no
\* AlertState and does not write the state file; active_alerts is the number
\* of keys with is_active, total_triggers is the sum of trigger_count over
\* all keys, and the by_level counts for warning and critical add up to
\* active_alerts and agree with get_active_alerts.
C16_Statistics ==
    up => LET out == GetStatisticsCall(states)
              stats == out.ret
              active == GetActiveAlerts(states)
          IN  /\ out.states = states
              /\ ~out.save
              /\ out.sent = <<>>
              /\ stats.active_alerts = Cardinality({k \in DOMAIN states : states[k].is_active})
              /\ stats.total_triggers = TriggersAt(1) + TriggersAt(2)
              /\ DOMAIN states \subseteq {KeyOrder[1], KeyOrder[2]}
              /\ stats.by_level.warning + stats.by_level.critical = stats.active_alerts
              /\ stats.active_alerts = Cardinality(active)
              /\ stats.by_level.warning = Cardinality({s \in active : s.level = WARNING})
              /\ stats.by_level.critical = Cardinality({s \in active : s.level = CRITICAL})

\* the statistics have just been taken with one alert active at each level,
\* an inactive key would not do: the file on disk is the one of the call before
C16_Witness ==
    /\ up
    /\ call.op = "get_statistics"
    /\ call.ret.active_alerts = 2
    /\ call.ret.by_level.warning = 1
    /\ call.ret.by_level.critical = 1
    /\ call.ret.total_triggers = 3
    /\ call.ret = GetStatistics(states)
    /\ LoadState(file) = states


\* the call ends for the caller and in memory as it does when the document
\* is written, whatever the file system does to the write
SameAsWritten(out) ==
    LET good == Complete(out, file, "written")
    IN  \A wr \in DiskOutcomes :
            LET done == Complete(out, file, wr)
            IN  /\ ~done.raises
                /\ done.ret = good.ret
                /\ done.sent = good.sent
                /\ done.states = good.states

\* C19 -- persistence failure is non-fatal: when writing the state file
\* fails during process_reading, process_container_alert or
\* clear_container_alert, no exception reaches the caller, the call returns
\* what it returns with a working store and the map in memory holds the same
\* updates.
C19_PersistenceFailureNonFatal ==
    up => \A ok \in BOOLEAN :
          /\ \A r \in Readings :
                SameAsWritten(ProcessReadingCall(states, r, ok, now, config))
          /\ \A c \in ContainerNames, i \in IssueTypes, l \in ContainerLevels :
                SameAsWritten(ProcessContainerAlertCall(states, c, i, l, ok, now, config))
          /\ \A c \in ContainerNames, i \in IssueTypes :
                SameAsWritten(ClearContainerAlertCall(states, c, i, ok, config))

\* no write has succeeded since the start without a state file, and a
\* breaching reading has just been suppressed by the cooldown of the alert
\* that only the map in memory knows
C19_Witness ==
    /\ up
    /\ ~file.exists
    /\ LoadState(file) # states
    /\ call.op = "process_reading"
    /\ call.level # NoLevel
    /\ call.sent = <<>>
    /\ call.ret = FALSE
    /\ ActiveKey(call.key)
    /\ WithinCooldown(call.key)
    /\ states[call.key].trigger_count = 1


\* the thresholds of a metric are non-negative and ordered
Ordered(th) == th.warning >= 0 /\ th.critical >= 0 /\ th.warning < th.critical

\* C18 -- threshold ordering is enforced before the engine runs: load_config
\* raises ValueError for every configuration in which a threshold of cpu,
\* memory, disk or temperature is negative or warning >= critical, so in a
\* running process every reading the system monitor builds has non-negative
\* thresholds with warning < critical.
C18_ThresholdsValidated ==
    /\ (call.op = "load_config" /\ \E m \in MetricNames : ~Ordered(config.thresholds[m]))
       => call.ret = "ValueError"
    /\ up => \A m \in MetricNames :
                LET r == BuildReading(config, m, MaxThreshold)
                IN  /\ r.warning_threshold >= 0
                    /\ r.critical_threshold >= 0
                    /\ r.warning_threshold < r.critical_threshold


\* the messages i < j of the outbox belong to one active episode of one key
SameEpisode(i, j) ==
    /\ outbox[i].key = outbox[j].key
    /\ \A k \in (i + 1)..j : outbox[k].key = outbox[i].key => outbox[k].framing # "new"

\* C17 -- process_reading is effectively serialized per key: what calls that
\* overlap at the dispatch send is what some serial order of the calls sends;
\* in particular two delivered alerts of one active episode at the same
\* severity are at least the cooldown apart, and one active episode gets at
\* most one recovery message.
C17_SerializedPerKey ==
    \A i \in DOMAIN outbox, j \in DOMAIN outbox :
        (i < j /\ SameEpisode(i, j)) =>
            /\ (/\ outbox[i].level # RECOVERY
                /\ outbox[i].level = outbox[j].level
                /\ outbox[i].delivered
                /\ outbox[j].delivered)
               => outbox[j].at - outbox[i].at >= config.cooldown_minutes
            /\ ~(outbox[i].level = RECOVERY /\ outbox[j].level = RECOVERY)



\* the cooldown of the key is over: no alert was ever delivered for it, or
\* the last one was delivered at least cooldown_minutes ago
CooldownElapsed(key) ==
    \/ states[key].last_alert_sent = None
    \/ now - states[key].last_alert_sent >= config.cooldown_minutes

\* C21 -- repeat after cooldown: for an active key and a breaching reading
\* that does not escalate, process_reading sends exactly one message and
\* makes trigger_count one larger if and only if last_alert_sent is null or
\* at least cooldown_minutes ago (exactly cooldown_minutes counts as over);
\* otherwise it sends nothing and leaves trigger_count alone.
C21_RepeatAfterCooldown ==
    up => \A r \in Readings, ok \in BOOLEAN :
        LET key == ReadingKey(r)
            out == ProcessReadingCall(states, r, ok, now, config)
        IN  (/\ ActiveKey(key)
             /\ Breaches(r)
             /\ ~(states[key].level = WARNING /\ Severity(r) = CRITICAL))
            => IF CooldownElapsed(key)
               THEN /\ out.sent = <<Severity(r)>>
                    /\ out.states[key].trigger_count = states[key].trigger_count + 1
               ELSE /\ out.sent = <<>>
                    /\ out.states[key].trigger_count = states[key].trigger_count

\* an active WARNING alert was delivered exactly cooldown_minutes ago, and
\* process_reading with another WARNING reading sends the repeat
C21_Witness ==
    /\ up
    /\ ActiveKey(MetricKey)
    /\ states[MetricKey].level = WARNING
    /\ states[MetricKey].trigger_count = 1
    /\ states[MetricKey].last_alert_sent # None
    /\ now - states[MetricKey].last_alert_sent = config.cooldown_minutes
    /\ \E r \in Readings :
          /\ ReadingKey(r) = MetricKey
          /\ Breaches(r)
          /\ Severity(r) = WARNING
          /\ ProcessReadingCall(states, r, TRUE, now, config).sent = <<WARNING>>

\* C22 -- a failed escalation is retried: when the message of a WARNING to
\* CRITICAL escalation was reported as failed, the next process_reading for
\* that key with a CRITICAL reading sends the CRITICAL message again, also
\* within the cooldown that the delivered WARNING message started.
C22_FailedEscalationRetried ==
    up => \A r \in Readings :
        LET key == ReadingKey(r)
            failed == ProcessReadingCall(states, r, FALSE, now, config)
        IN  (/\ ActiveKey(key)
             /\ states[key].level = WARNING
             /\ Breaches(r)
             /\ Severity(r) = CRITICAL)
            => \A r2 \in Readings, ok \in BOOLEAN :
                  (ReadingKey(r2) = key /\ Breaches(r2) /\ Severity(r2) = CRITICAL)
                  => ProcessReadingCall(failed.states, r2, ok, now, config).sent
                         = <<CRITICAL>>

\* C23 -- a failed recovery notification is retried: with recovery
\* notifications enabled, when the recovery message for an active key was
\* reported as failed, a later process_reading for that key with a reading
\* that does not breach sends the recovery message again.
C23_FailedRecoveryRetried ==
    (up /\ config.recovery_enabled) => \A r \in Readings :
        LET key == ReadingKey(r)
            failed == ProcessReadingCall(states, r, FALSE, now, config)
        IN  (ActiveKey(key) /\ failed.sent = <<RECOVERY>>)
            => \A r2 \in Readings :
                  (/\ ReadingKey(r2) = key
                   /\ r2.value = r.value
                   /\ r2.warning_threshold = r.warning_threshold
                   /\ r2.critical_threshold = r.critical_threshold)
                  => ProcessReadingCall(failed.states, r2, TRUE, now, config).sent
                         = <<RECOVERY>>

\* C27 -- state invariants: starting from an empty store, whatever
\* process_reading, process_container_alert and clear_container_alert calls
\* were made and whatever the transport reported, every key is active
\* exactly when its first_triggered is set, an active key has
\* trigger_count >= 1, and a key with last_alert_sent set has
\* trigger_count >= 1.
C27_StateInvariants ==
    \A key \in DOMAIN states :
        /\ states[key].is_active <=> states[key].first_triggered # None
        /\ states[key].is_active => states[key].trigger_count >= 1
        /\ states[key].last_alert_sent # None => states[key].trigger_count >= 1

\* a metric alert has recovered after a delivered alert while a container
\* alert is active
C27_Witness ==
    /\ up
    /\ call.op \in EngineOps
    /\ HasKey(states, MetricKey)
    /\ ~states[MetricKey].is_active
    /\ states[MetricKey].first_triggered = None
    /\ states[MetricKey].last_alert_sent # None
    /\ states[MetricKey].trigger_count >= 1
    /\ ActiveKey(ContainerKey("app", "stopped"))
    /\ states[ContainerKey("app", "stopped")].first_triggered # None

OneDispatchReported(out, ok) ==
    /\ Len(out.sent) <= 1
    /\ out.ret = (out.sent # <<>> /\ ok)

\* C30 -- at most one dispatch per call, and the return value reports it:
\* every call of process_reading, process_container_alert and
\* clear_container_alert hands at most one message to the transport and
\* returns true if and only if it handed one over and the transport
\* reported success.
C30_OneDispatchPerCall ==
    up => /\ \A r \in Readings, ok \in BOOLEAN :
                OneDispatchReported(ProcessReadingCall(states, r, ok, now, config), ok)
          /\ \A c \in ContainerNames, i \in IssueTypes, l \in ContainerLevels, ok \in BOOLEAN :
                OneDispatchReported(
                    ProcessContainerAlertCall(states, c, i, l, ok, now, config), ok)
          /\ \A c \in ContainerNames, i \in IssueTypes, ok \in BOOLEAN :
                OneDispatchReported(ClearContainerAlertCall(states, c, i, ok, config), ok)

\* calls of all three kinds have been made: a container alert was raised
\* and cleared, the recovery message failed and false was returned, while a
\* metric alert is active
C30_Witness ==
    /\ up
    /\ call.op = "clear_container_alert"
    /\ call.sent = <<RECOVERY>>
    /\ ~call.ret
    /\ HasKey(states, call.key)
    /\ ~states[call.key].is_active
    /\ states[call.key].trigger_count >= 1
    /\ ActiveKey(MetricKey)
    /\ states[MetricKey].last_alert_sent # None

\* the alert of the container for the issue is active
ActiveIssue(m, name, issue) ==
    HasKey(m, ContainerKey(name, issue)) /\ m[ContainerKey(name, issue)].is_active

\* C24 -- container issues recover on the next clean observation: an active
\* alert of the Docker monitor is cleared by the poll in which the container
\* no longer shows the issue: it runs again (stopped), its health is
\* reported healthy, whatever it was in the poll before (unhealthy), or its
\* restart count has not grown since the poll before (restart_loop).
C24_ContainerIssuesRecover ==
    up => \A name \in ContainerNames, current \in ContainerStatuses, ok \in BOOLEAN :
        LET out == CheckContainerIssuesCall(states, previous_states, restart_history,
                                            name, current, ok, now, config)
        IN  /\ (ActiveIssue(states, name, "stopped") /\ IsRunning(current))
               => ~ActiveIssue(out.states, name, "stopped")
            /\ (ActiveIssue(states, name, "unhealthy") /\ current.health = "healthy")
               => ~ActiveIssue(out.states, name, "unhealthy")
            /\ (/\ ActiveIssue(states, name, "restart_loop")
                /\ HasKey(previous_states, name)
                /\ current.restart_count = previous_states[name].restart_count)
               => ~ActiveIssue(out.states, name, "restart_loop")

\* C25 -- get_last_data returns the data of the last successful check: once
\* a check has succeeded, a safe_check whose check raises, cannot reach
\* Docker or cannot list the containers leaves the data that get_last_data
\* returns as it was.
C25_LastDataOfLastSuccess ==
    (up /\ last_check_data.containers # <<>>)
    => \A f \in CheckFailures :
          GetLastData(SafeCheckCall(
              last_check_data,
              CheckFailedCall(states, previous_states, restart_history, f)))
          = GetLastData(last_check_data)

\* C26 -- history pruning works on every calendar date: on every date and
\* for every positive keep_days, cleanup_old_alerts(keep_days) does not
\* raise, deletes exactly the rows older than midnight of the day keep_days
\* days before today and returns their number; get_alert_stats(days) does
\* not raise and counts the rows since midnight of the day days - 1 days
\* before today.
C26_PruningOnEveryDate ==
    /\ \A keep_days \in 1..MaxKeepDays :
          LET out == CleanupOldAlertsCall(today, alert_history, keep_days)
              cutoff == Ordinal(today) - keep_days
          IN  /\ ~out.raises
              /\ out.rows = SelectSeq(alert_history, LAMBDA x : x >= cutoff)
              /\ out.value = Len(alert_history) - Len(out.rows)
    /\ \A days \in 1..MaxKeepDays :
          LET out == GetAlertStatsCall(today, alert_history, days)
              since == Ordinal(today) - days + 1
          IN  /\ ~out.raises
              /\ out.value = Len(SelectSeq(alert_history, LAMBDA x : x >= since))

\* the shutdown notifications sent so far
ShutdownNotices == SelectSeq(discord.messages, LAMBDA msg : msg.kind = "shutdown")

\* C29 -- shutdown runs once: when a signal arrives while start is running,
\* at most one shutdown notification is ever sent, exactly one has been sent
\* when main() has returned, and no message is sent after the session of
\* the Discord client was closed.
C29_ShutdownOnce ==
    /\ Len(ShutdownNotices) <= 1
    /\ tasks["main"] = "done" => Len(ShutdownNotices) = 1
    /\ \A i \in DOMAIN discord.messages : ~discord.messages[i].after_close

====
